---- MODULE Spec2Model ----
(***************************************************************************)
(* Model of heapless `vec::Drain` (src/src/vec/drain.rs): the draining     *)
(* iterator over a fixed-capacity vector, its two pull operations and its  *)
(* Drop implementation (zero-sized path, DropGuard, drop_in_place).        *)
(*                                                                         *)
(* Storage indices are 0-based as in the source.  For a type with nonzero  *)
(* size the elements of the vector are the distinct values 1..L (as in the *)
(* tests of the source); for a zero-sized type every element is Unit.      *)
(***************************************************************************)
EXTENDS Integers, Sequences, FiniteSets, TLC

\* Largest length of the vector before the drain.
MaxLen == 4

\* Capacity of the inline storage (the const generic N of the vector).
N == MaxLen

\* The only value of a zero-sized element type.
Unit == 0

\* Content of a storage slot that was never initialised.
Uninit == -1

\* Address of the empty slice left behind by mem::take(&mut self.iter).
Dangling == -1

Val == 0..MaxLen

VARIABLES
    zst,           \* size_of::<T>() == 0
    orig,          \* the vector's elements before drain (a sequence)
    start,         \* left edge of the drained range
    end,           \* right edge of the drained range
    buf,           \* the vector's storage, slots 0..N-1
    len,           \* the vector's length field
    tail_start,    \* Drain::tail_start
    tail_len,      \* Drain::tail_len
    iter,          \* Drain::iter, a slice iterator: first slot and count
    it,            \* the local `iter` of Drain::drop (taken out of self.iter)
    old_len,       \* the local `old_len` of the zero-sized path
    lenFirst,      \* truncate writes the length before it destroys
    k,             \* elements whose destructor was invoked by this discard
    pc,            \* position of the cursor's life cycle
    panicking,     \* a destructor panicked and the stack is unwinding
    cursorDrops,   \* per value: destructor invocations made by the discard
    callerDrops,   \* per value: destructor invocations made by the caller
    held,          \* per value: pulled and still owned by the caller
    fronts,        \* values returned by next(), in order
    backs,         \* values returned by next_back(), in order
    ret,           \* result of the latest pull
    exhausted,     \* some pull has returned None
    view           \* result of the latest as_slice()

vars == <<zst, orig, start, end, buf, len, tail_start, tail_len, iter, it,
          old_len, lenFirst, k, pc, panicking, cursorDrops, callerDrops,
          held, fronts, backs, ret, exhausted, view>>

\* The parts of the state no pull touches besides the iterator.
vecVars == <<buf, len>>
drainFields == <<tail_start, tail_len>>
inputVars == <<zst, orig, start, end>>
dropLocals == <<it, old_len, lenFirst, k, panicking, cursorDrops>>
callerVars == <<callerDrops, held>>
pullVars == <<fronts, backs, ret, exhausted, view>>

----------------------------------------------------------------------------
(* Helpers *)

L == Len(orig)

\* The vector as its users see it: slots [0, len).
Contents == [i \in 1..len |-> buf[i - 1]]

\* A sequence without its elements at 0-based indices [a, b).
RemoveRange(s, a, b) == SubSeq(s, 1, a) \o SubSeq(s, b + 1, Len(s))

None == [some |-> FALSE, v |-> Unit]
Some(v) == [some |-> TRUE, v |-> v]

EmptyIter == [ptr |-> Dangling, n |-> 0]

\* Variant: the default size_hint of an iterator, no lower bound known.
size_hint_default == <<0, iter.n>>

\* slice::Iter::len / size_hint of the remaining range.
size_hint == <<iter.n, iter.n>>

\* Variant: the slice of the whole drained range, pulled elements included.
as_slice_whole == [i \in 1..(end - start) |-> buf[start + i - 1]]

\* Drain::as_slice: the remaining range, read in place.
as_slice == [i \in 1..iter.n |-> buf[iter.ptr + i - 1]]

\* ptr::copy(src, dst, count): an overlap-safe move of count slots.
ptr_copy(b, src, dst, count) ==
    [i \in DOMAIN b |->
        IF i >= dst /\ i < dst + count THEN b[src + (i - dst)] ELSE b[i]]

----------------------------------------------------------------------------
(* Initial state: a vector of L <= N elements, no cursor yet. *)

Init ==
    /\ zst \in BOOLEAN
    /\ \E l \in 0..MaxLen :
          /\ orig = [i \in 1..l |-> IF zst THEN Unit ELSE i]
          /\ buf = [i \in 0..(N - 1) |->
                       IF i < l THEN (IF zst THEN Unit ELSE i + 1) ELSE Uninit]
          /\ len = l
    /\ start = 0
    /\ end = 0
    /\ tail_start = 0
    /\ tail_len = 0
    /\ iter = EmptyIter
    /\ it = EmptyIter
    /\ old_len = 0
    /\ lenFirst = FALSE
    /\ k = 0
    /\ pc = "Idle"
    /\ panicking = FALSE
    /\ cursorDrops = [v \in Val |-> 0]
    /\ callerDrops = [v \in Val |-> 0]
    /\ held = [v \in Val |-> 0]
    /\ fronts = <<>>
    /\ backs = <<>>
    /\ ret = None
    /\ exhausted = FALSE
    /\ view = <<>>

----------------------------------------------------------------------------
(* Vec::drain(start..end): construction of the cursor. *)

DrainRange(s, e) ==
    /\ pc = "Idle"
    /\ start' = s
    /\ end' = e
    /\ len' = s
    /\ iter' = [ptr |-> s, n |-> e - s]
    /\ tail_start' = e
    /\ tail_len' = L - e
    /\ pc' = "Pulling"
    /\ UNCHANGED <<zst, orig, buf, dropLocals, callerVars, pullVars>>

Drain ==
    \E s \in 0..L : \E e \in s..L : DrainRange(s, e)

----------------------------------------------------------------------------
(* Iterator::next and DoubleEndedIterator::next_back *)

\* Variant: the emptiness test of the slice iterator is off by one.
is_exhausted_late(i) == i.n < 0

\* slice::Iter::next / next_back return None: the remaining range is empty.
is_exhausted(i) == i.n = 0

\* Variant: next gives the front slot but shrinks the range at its back.
iter_next_shrink_back(i) == [elt |-> i.ptr, rest |-> [ptr |-> i.ptr, n |-> i.n - 1]]

\* slice::Iter::next: the front slot and the iterator after it.
iter_next(i) == [elt |-> i.ptr, rest |-> [ptr |-> i.ptr + 1, n |-> i.n - 1]]

\* Variant: next_back gives the right slot but shrinks the range at its front.
iter_next_back_front(i) ==
    [elt |-> i.ptr + i.n - 1, rest |-> [ptr |-> i.ptr + 1, n |-> i.n - 1]]

\* slice::Iter::next_back: the back slot and the iterator after it.
iter_next_back(i) == [elt |-> i.ptr + i.n - 1, rest |-> [ptr |-> i.ptr, n |-> i.n - 1]]

PullFront ==
    /\ pc = "Pulling"
    /\ IF is_exhausted(iter)
       THEN /\ ret' = None
            /\ exhausted' = TRUE
            /\ UNCHANGED <<iter, fronts, held>>
       ELSE LET r == iter_next(iter)
                v == buf[r.elt]
            IN /\ iter' = r.rest
               /\ ret' = Some(v)
               /\ fronts' = Append(fronts, v)
               /\ held' = [held EXCEPT ![v] = @ + 1]
               /\ UNCHANGED exhausted
    /\ UNCHANGED <<inputVars, vecVars, drainFields, dropLocals, callerDrops, backs,
                   view, pc>>

\* Variant: next_back also takes the element off the vector's length, as a
\* pop would.
PullBack_Pops ==
    /\ pc = "Pulling"
    /\ IF is_exhausted(iter)
       THEN /\ ret' = None
            /\ exhausted' = TRUE
            /\ UNCHANGED <<iter, backs, held, len>>
       ELSE LET r == iter_next_back(iter)
                v == buf[r.elt]
            IN /\ iter' = r.rest
               /\ ret' = Some(v)
               /\ backs' = Append(backs, v)
               /\ held' = [held EXCEPT ![v] = @ + 1]
               /\ len' = len - 1
               /\ UNCHANGED exhausted
    /\ UNCHANGED <<inputVars, buf, drainFields, dropLocals, callerDrops, fronts,
                   view, pc>>

PullBack ==
    /\ pc = "Pulling"
    /\ IF is_exhausted(iter)
       THEN /\ ret' = None
            /\ exhausted' = TRUE
            /\ UNCHANGED <<iter, backs, held>>
       ELSE LET r == iter_next_back(iter)
                v == buf[r.elt]
            IN /\ iter' = r.rest
               /\ ret' = Some(v)
               /\ backs' = Append(backs, v)
               /\ held' = [held EXCEPT ![v] = @ + 1]
               /\ UNCHANGED exhausted
    /\ UNCHANGED <<inputVars, vecVars, drainFields, dropLocals, callerDrops, fronts,
                   view, pc>>

\* Drain::as_slice called on the live cursor (&self: nothing is written).
AsSlice ==
    /\ pc = "Pulling"
    /\ view' = as_slice
    /\ UNCHANGED <<inputVars, vecVars, drainFields, iter, dropLocals, callerVars,
                   fronts, backs, ret, exhausted, pc>>

\* The caller drops a value it pulled (the temporary of `iter.next().unwrap().0`).
CallerDrop ==
    /\ pc \in {"Pulling", "Completed"}
    /\ \E v \in Val :
          /\ held[v] > 0
          /\ held' = [held EXCEPT ![v] = @ - 1]
          /\ callerDrops' = [callerDrops EXCEPT ![v] = @ + 1]
    /\ UNCHANGED <<inputVars, vecVars, drainFields, iter, dropLocals, pullVars, pc>>

----------------------------------------------------------------------------
(* <Drain as Drop>::drop *)

\* Variant: the phantom slots of the un-pulled elements are not re-exposed.
zst_set_len_no_drop(old, drop_len, tl) == old + tl

\* The length the zero-sized path sets before it truncates.
zst_set_len(old, drop_len, tl) == old + drop_len + tl

\* The length the zero-sized path truncates to.
zst_truncate_to(old, tl) == old + tl

\* Where execution goes after the guard is armed.
after_guard_armed(drop_len) == IF drop_len = 0 THEN "guard" ELSE "drop_in_place"

\* Variant: the tail is relocated before the destroy phase instead of by a
\* guard that runs when the scope is left.
DropBegin_RelocateFirst ==
    /\ pc = "Pulling"
    /\ it' = iter
    /\ iter' = EmptyIter
    /\ k' = 0
    /\ IF zst
       THEN /\ old_len' = len
            /\ len' = zst_set_len(len, iter.n, tail_len)
            /\ pc' = "truncate"
            /\ UNCHANGED buf
       ELSE /\ pc' = after_guard_armed(iter.n)
            /\ buf' = IF tail_len > 0 /\ tail_start # len
                      THEN ptr_copy(buf, tail_start, len, tail_len) ELSE buf
            /\ len' = IF tail_len > 0 THEN len + tail_len ELSE len
            /\ UNCHANGED old_len
    /\ UNCHANGED <<inputVars, drainFields, lenFirst, panicking, cursorDrops,
                   callerVars, pullVars>>

DropBegin ==
    /\ pc = "Pulling"
    /\ it' = iter
    /\ iter' = EmptyIter
    /\ k' = 0
    /\ IF zst
       THEN /\ old_len' = len
            /\ len' = zst_set_len(len, iter.n, tail_len)
            /\ pc' = "truncate"
       ELSE /\ pc' = after_guard_armed(iter.n)
            /\ UNCHANGED <<old_len, len>>
    /\ UNCHANGED <<inputVars, buf, drainFields, lenFirst, panicking, cursorDrops,
                   callerVars, pullVars>>

\* Variant: the destroy phase starts at the left edge of the drained range.
drop_offset_start == start

\* drop_offset: the slot of the first un-pulled element.
drop_offset == it.ptr

\* Variant: no guard, a panicking destructor unwinds straight out of drop.
after_destructor_unguarded(outcome, last, normal) ==
    IF outcome = "abort" \/ (outcome = "panic" /\ panicking)
    THEN "Aborted"
    ELSE IF outcome = "panic" THEN "Completed"
    ELSE IF last THEN normal ELSE pc

\* What follows a destructor call of drop_in_place, by its outcome.
after_destructor(outcome, last, normal) ==
    IF outcome = "abort" \/ (outcome = "panic" /\ panicking)
    THEN "Aborted"
    ELSE IF last THEN normal ELSE pc

\* ptr::drop_in_place(to_drop): one element's destructor per step.  A panic
\* unwinds through the remaining elements (they are still dropped); a second
\* panic, or a build that aborts on panic, ends the process.
DropInPlace ==
    /\ pc = "drop_in_place"
    /\ k < it.n
    /\ LET v == buf[drop_offset + k]
       IN cursorDrops' = [cursorDrops EXCEPT ![v] = @ + 1]
    /\ k' = k + 1
    /\ \E outcome \in {"ok", "panic", "abort"} :
          /\ pc' = after_destructor(outcome, k + 1 = it.n, "guard")
          /\ panicking' = (panicking \/ outcome = "panic")
    /\ UNCHANGED <<inputVars, vecVars, drainFields, iter, it, old_len, lenFirst,
                   callerVars, pullVars>>

\* Variant: the tail is never moved, only the length is updated.
guard_buf_nocopy(b, vlen, tail, tl) == b

\* Variant: the tail is moved to where the iterator stopped.
guard_buf_iterpos(b, vlen, tail, tl) ==
    IF tl > 0 /\ tail # vlen THEN ptr_copy(b, tail, it.ptr, tl) ELSE b

\* The storage after DropGuard::drop.
guard_buf(b, vlen, tail, tl) ==
    IF tl > 0 /\ tail # vlen THEN ptr_copy(b, tail, vlen, tl) ELSE b

\* Variant: the length is left at the left edge of the drained range.
guard_len_no_tail(vlen, tl) == vlen

\* Variant: the length of the vector before the drain is restored.
guard_len_restore(vlen, tl) == tail_start + tl

\* The length after DropGuard::drop.
guard_len(vlen, tl) == IF tl > 0 THEN vlen + tl ELSE vlen

\* <DropGuard as Drop>::drop: runs when the scope of Drain::drop is left,
\* by return or by unwinding.
GuardDrop ==
    /\ pc = "guard"
    /\ buf' = guard_buf(buf, len, tail_start, tail_len)
    /\ len' = guard_len(len, tail_len)
    /\ pc' = "Completed"
    /\ UNCHANGED <<inputVars, drainFields, iter, dropLocals, callerVars, pullVars>>

\* Vec::truncate(new_len) of the zero-sized path, entered.  The contract of
\* truncate (destroy [new_len, len) in place, length = new_len) does not say
\* whether the length is written before or after the destructors run, so
\* both orders are behaviours of the model (lenFirst).
TruncateCall ==
    /\ pc = "truncate"
    /\ LET new_len == zst_truncate_to(old_len, tail_len)
       IN IF new_len >= len
          THEN /\ pc' = "Completed"
               /\ UNCHANGED <<len, lenFirst>>
          ELSE /\ pc' = "truncate_drop"
               /\ \E f \in BOOLEAN :
                     /\ lenFirst' = f
                     /\ len' = IF f THEN new_len ELSE len
    /\ UNCHANGED <<inputVars, buf, drainFields, iter, it, old_len, k, panicking,
                   cursorDrops, callerVars, pullVars>>

\* Vec::truncate destroying the excess elements, one destructor per step.
TruncateDrop ==
    /\ pc = "truncate_drop"
    /\ k < it.n
    /\ cursorDrops' = [cursorDrops EXCEPT ![Unit] = @ + 1]
    /\ k' = k + 1
    /\ \E outcome \in {"ok", "panic", "abort"} :
          /\ pc' = after_destructor(outcome, k + 1 = it.n, "Completed")
          /\ panicking' = (panicking \/ outcome = "panic")
          /\ len' = IF /\ k + 1 = it.n
                       /\ ~lenFirst
                       /\ outcome = "ok"
                       /\ ~panicking
                    THEN zst_truncate_to(old_len, tail_len)
                    ELSE len
    /\ UNCHANGED <<inputVars, buf, drainFields, iter, it, old_len, lenFirst,
                   callerVars, pullVars>>

----------------------------------------------------------------------------

Next ==
    \/ Drain
    \/ PullFront
    \/ PullBack
    \/ AsSlice
    \/ CallerDrop
    \/ DropBegin
    \/ DropInPlace
    \/ GuardDrop
    \/ TruncateCall
    \/ TruncateDrop

Spec == Init /\ [][Next]_vars

----------------------------------------------------------------------------
(* Properties *)

Pulls == Len(fronts) + Len(backs)

\* The storage as it was before the drain.
OrigBuf == [i \in 0..(N - 1) |-> IF i < L THEN orig[i + 1] ELSE Uninit]

\* The tail [end, L) sits at slots [start, start + tail_len), in order.
TailRelocated == \A i \in 0..(tail_len - 1) : buf[start + i] = orig[end + i + 1]

\* Values of the drained range that were never pulled.
Unpulled ==
    {orig[i] : i \in (start + 1)..end}
        \ ({fronts[i] : i \in 1..Len(fronts)} \cup {backs[i] : i \in 1..Len(backs)})

\* C1: after drain(start, end), pulling every element and discarding the
\* cursor, the vector is the original sequence without the elements at
\* [start, end), the others in their original order.
C1_FullDrainRemovesRange ==
    (pc = "Completed" /\ Pulls = end - start)
        => Contents = RemoveRange(orig, start, end)

C1_Witness ==
    /\ pc = "Completed"
    /\ ~zst
    /\ Pulls = end - start
    /\ end - start >= 2
    /\ start > 0
    /\ tail_len > 0
    /\ ret = None

\* C2: whatever was pulled (any number of elements, from either end, in any
\* order), discarding the cursor leaves the original sequence without
\* [start, end), the same vector a full drain leaves.
C2_DiscardIndependentOfPulls ==
    (pc = "Completed" /\ ~panicking)
        => Contents = RemoveRange(orig, start, end)

C2_Witness ==
    /\ pc = "Completed"
    /\ ~panicking
    /\ ~zst
    /\ Len(fronts) >= 1
    /\ Len(backs) >= 1
    /\ Pulls < end - start
    /\ tail_len > 0

\* C3: the i-th successful next() returns the original element at index
\* start+i-1, the j-th successful next_back() the one at index end-j; the
\* two index ranges never meet, so no element is returned twice, and
\* end-start pulls return every element of [start, end) once.
C3_PullOrder ==
    /\ \A i \in 1..Len(fronts) : fronts[i] = orig[start + i]
    /\ \A j \in 1..Len(backs) : backs[j] = orig[end - j + 1]
    /\ Pulls <= end - start
    /\ \A i \in 1..Len(fronts) : \A j \in 1..Len(backs) : start + i - 1 < end - j
    /\ (pc # "Idle" /\ Pulls = end - start)
          => {start + i - 1 : i \in 1..Len(fronts)} \cup {end - j : j \in 1..Len(backs)}
                = start..(end - 1)

C3_Witness ==
    /\ pc = "Pulling"
    /\ ~zst
    /\ Len(fronts) >= 2
    /\ Len(backs) >= 2
    /\ Pulls = end - start
    /\ ret.some
    /\ ret.v = backs[Len(backs)]

\* C4 as stated: when a destructor of the destroy phase has aborted, the tail
\* was relocated to index start and the length set to start + tail_len
\* before that destructor ran.
C4_RelocatedBeforeDestroy ==
    (pc \in {"drop_in_place", "guard"} /\ panicking)
        => (len = start + tail_len /\ TailRelocated)

\* C4 amended: the discard destroys first and relocates second.  While the
\* destructors of the un-pulled elements run, the length is still start and
\* the storage is untouched (the tail still at tail_start); the guard runs
\* only after every destructor call of the phase was made, also when one of
\* them panicked, and then relocates the tail and sets the length.
C4_DestroyThenRelocate ==
    /\ (pc = "drop_in_place") => (len = start /\ buf = OrigBuf)
    /\ (pc = "guard") => (k = it.n /\ len = start /\ buf = OrigBuf)
    /\ (pc = "Completed" /\ ~zst)
          => (k = it.n /\ len = start + tail_len /\ TailRelocated)

C4_Witness ==
    /\ pc = "guard"
    /\ panicking
    /\ tail_len > 0
    /\ k >= 2
    /\ len = start
    /\ ~TailRelocated

\* C5: for a type of nonzero size, when the destructor of an un-pulled
\* element panicked and the discard finished unwinding, the length is
\* start + tail_len, slots [0, start) hold the head, slots
\* [start, start + tail_len) hold the tail [end, L) in order, and no element
\* was destroyed more than once.
C5_PanicSafe ==
    (pc = "Completed" /\ panicking /\ ~zst)
        => /\ len = start + tail_len
           /\ \A i \in 0..(start - 1) : buf[i] = orig[i + 1]
           /\ TailRelocated
           /\ \A v \in Val : cursorDrops[v] + callerDrops[v] <= 1

C5_Witness ==
    /\ pc = "Completed"
    /\ panicking
    /\ ~zst
    /\ start > 0
    /\ tail_len > 0
    /\ it.n >= 2
    /\ len = 1 + tail_len

\* C6: after pulls and a discard in which no destructor aborted, the discard
\* destroyed every never-pulled element of [start, end) exactly once, no
\* pulled element and no element outside [start, end).
C6_DestroysUnpulledOnce ==
    (pc = "Completed" /\ ~panicking)
        => IF zst
           THEN cursorDrops[Unit] = (end - start) - Pulls
           ELSE \A v \in Val : cursorDrops[v] = IF v \in Unpulled THEN 1 ELSE 0

C6_Witness ==
    /\ pc = "Completed"
    /\ ~panicking
    /\ ~zst
    /\ Len(fronts) >= 1
    /\ Cardinality(Unpulled) >= 2
    /\ tail_len > 0

\* C7: for a zero-sized type, drain, any partial consumption and discard make
\* exactly drop_len destructor calls in the discard, end-start in total once
\* the caller dropped what it pulled, and leave the length
\* L - (end-start) = start + tail_len.
C7_ZstCounts ==
    (pc = "Completed" /\ zst /\ ~panicking)
        => /\ len = start + tail_len
           /\ len = L - (end - start)
           /\ cursorDrops[Unit] = it.n
           /\ Pulls + cursorDrops[Unit] = end - start
           /\ (held[Unit] = 0 => callerDrops[Unit] + cursorDrops[Unit] = end - start)

C7_Witness ==
    /\ pc = "Completed"
    /\ zst
    /\ ~panicking
    /\ Pulls >= 1
    /\ it.n >= 2
    /\ tail_len > 0
    /\ held[Unit] = 0

\* C8: draining an empty range (start = end, start = L included) and
\* discarding leaves the vector unchanged: the same length, the same content
\* in every slot, nothing destroyed.
C8_EmptyRangeNoOp ==
    (pc = "Completed" /\ start = end)
        => /\ len = L
           /\ buf = OrigBuf
           /\ Contents = orig
           /\ \A v \in Val : cursorDrops[v] = 0

C8_Witness ==
    /\ pc = "Completed"
    /\ ~zst
    /\ start = end
    /\ start > 0
    /\ start < L

\* The scenario of C9: the vector [1,2,3,4], drain [2,4), one next(), discard.
C9_Scenario ==
    /\ pc = "Completed"
    /\ ~zst
    /\ orig = <<1, 2, 3, 4>>
    /\ start = 2
    /\ end = 4
    /\ Len(fronts) = 1
    /\ Len(backs) = 0

\* C9 as stated: the scenario ends with the vector [1,2,4].
C9_FinalIs124 == C9_Scenario => (fronts = <<3>> /\ Contents = <<1, 2, 4>>)

\* C9 amended: the pull returns 3 and the scenario ends with the vector
\* [1,2]: both elements of [2,4) are removed, the un-pulled 4 is destroyed.
C9_FinalIs12 ==
    C9_Scenario => (fronts = <<3>> /\ Contents = <<1, 2>> /\ cursorDrops[4] = 1)

C9_Witness == C9_Scenario /\ ~panicking

\* C10: while the cursor is live, size_hint is exact (both bounds equal
\* end-start minus the successful pulls), never grows, drops by one with each
\* successful pull and is 0 after end-start pulls.
C10_SizeHintExact ==
    /\ [](pc = "Pulling" => size_hint = <<(end - start) - Pulls, (end - start) - Pulls>>)
    /\ [][(pc = "Pulling" /\ pc' = "Pulling")
            => /\ size_hint'[1] <= size_hint[1]
               /\ size_hint'[2] <= size_hint[2]
               /\ (Pulls' = Pulls + 1) => (size_hint' = <<size_hint[1] - 1, size_hint[2] - 1>>)
               /\ (Pulls' = Pulls) => (size_hint' = size_hint)]_vars

C10_Witness ==
    /\ pc = "Pulling"
    /\ end - start >= 3
    /\ Pulls = end - start
    /\ Len(fronts) >= 1
    /\ Len(backs) >= 1
    /\ size_hint = <<0, 0>>

\* A step of the live cursor that is a pull (next or next_back).
PullStep ==
    /\ pc = "Pulling"
    /\ pc' = "Pulling"
    /\ callerDrops' = callerDrops
    /\ view' = view

\* C11: with an empty remaining range next() and next_back() return None and
\* change nothing (remaining range, tail_start, tail_len, the vector); once
\* a pull has returned None every later pull from either end returns None.
C11_ExhaustedIsFused ==
    /\ [](pc = "Pulling" /\ exhausted => iter.n = 0 /\ ret = None)
    /\ [][PullStep
            => /\ (iter.n = 0)
                    => /\ ret' = None
                       /\ exhausted'
                       /\ UNCHANGED <<iter, tail_start, tail_len, buf, len,
                                      fronts, backs, held>>
               /\ exhausted => (ret' = None /\ exhausted')
               /\ (iter.n > 0) => ret'.some]_vars

C11_Witness ==
    /\ pc = "Pulling"
    /\ exhausted
    /\ ret = None
    /\ Len(fronts) >= 1
    /\ Len(backs) >= 1
    /\ tail_len > 0

\* The original elements at indices [start + f, end - b) after f front and
\* b back pulls.
RemainingOfOrig ==
    [i \in 1..((end - start) - Pulls) |-> orig[start + Len(fronts) + i]]

\* C12: after f successful next() and b successful next_back(), as_slice is
\* exactly the original elements at indices [start+f, end-b) in order, and
\* calling it removes nothing and changes no state of cursor or vector.
C12_AsSliceIsRemaining ==
    /\ [](pc = "Pulling" => as_slice = RemainingOfOrig)
    /\ [][(pc = "Pulling" /\ view' # view)
            => /\ view' = RemainingOfOrig
               /\ UNCHANGED <<iter, buf, len, tail_start, tail_len, fronts, backs,
                              held, ret, exhausted, pc>>]_vars

C12_Witness ==
    /\ pc = "Pulling"
    /\ ~zst
    /\ Len(fronts) >= 1
    /\ Len(backs) >= 1
    /\ Len(view) = 2
    /\ view = as_slice

\* C13: from the construction of the cursor until its discard begins, after
\* any pulls, the vector's length is start, so every original index in
\* [start, L) is outside the vector's live range.
C13_LenIsStartWhileLive ==
    (pc = "Pulling") => (len = start /\ \A i \in start..(L - 1) : ~(i < len))

C13_Witness ==
    /\ pc = "Pulling"
    /\ Len(fronts) >= 1
    /\ Len(backs) >= 1
    /\ start > 0
    /\ tail_len > 0
    /\ len = start

\* Values already handed to the caller.
Pulled == {fronts[i] : i \in 1..Len(fronts)} \cup {backs[i] : i \in 1..Len(backs)}

\* Slot i holds an element the vector owns: initialised, not moved out to the
\* caller, not destroyed, and not a stale copy of another live slot.
LiveSlot(i) ==
    /\ buf[i] # Uninit
    /\ buf[i] \notin Pulled
    /\ cursorDrops[buf[i]] = 0
    /\ \A j \in 0..(len - 1) : (j # i) => (buf[j] # buf[i])

\* Lemma (nonzero size): in every state, the steps of the discard and the
\* states after a destructor panic or abort included, every slot below the
\* length is live.
NonZstSlotsLive == ~zst => \A i \in 0..(len - 1) : LiveSlot(i)

\* Lemma (zero size, truncate writing the length before it destroys): the
\* length never exceeds the number of values the vector still owns, and
\* after a destructor panic the discard ends with length start + tail_len.
ZstLenFirstSafe ==
    (zst /\ (pc \in {"truncate_drop", "Completed", "Aborted"} => (lenFirst \/ k = 0)))
        => /\ len <= L - Pulls - cursorDrops[Unit]
           /\ (pc = "Completed" /\ panicking) => len = start + tail_len

\* Lemma (zero size): the discard and the caller together never make more
\* than end - start destructor calls.
ZstDropsBounded == zst => cursorDrops[Unit] + callerDrops[Unit] <= end - start

\* C16: a pull changes only the remaining range (next advances its front
\* boundary by one, next_back retreats its back boundary by one); length,
\* storage, tail_start and tail_len are untouched by pulls, and
\* tail_start = end, tail_len = L - end hold from construction on.
C16_PullsTouchOnlyRange ==
    /\ [](pc # "Idle" => (tail_start = end /\ tail_len = L - end))
    /\ [](pc = "Pulling" => buf = OrigBuf)
    /\ [][PullStep
            => /\ UNCHANGED <<len, buf, tail_start, tail_len>>
               /\ (fronts' # fronts)
                    => /\ iter'.ptr = iter.ptr + 1
                       /\ iter'.ptr + iter'.n = iter.ptr + iter.n
                       /\ backs' = backs
               /\ (backs' # backs)
                    => /\ iter'.ptr = iter.ptr
                       /\ iter'.ptr + iter'.n = iter.ptr + iter.n - 1
                       /\ fronts' = fronts
               /\ (fronts' = fronts /\ backs' = backs) => iter' = iter]_vars

C16_Witness ==
    /\ pc = "Pulling"
    /\ ~zst
    /\ Len(fronts) >= 1
    /\ Len(backs) >= 1
    /\ tail_len > 0
    /\ iter.n = 1
    /\ buf = OrigBuf

====
